---- MODULE Spec2Model ----
(***************************************************************************)
(* Session lifecycle and request dispatch of gazelle_client.GazelleClient. *)
(*                                                                         *)
(* Text is modelled as a sequence of chunks (a chunk is a run of           *)
(* characters that is never split), so that Python's substring test        *)
(* `"login.php" in response.url` is a search over the whole URL: host,     *)
(* path and query string alike.                                            *)
(***************************************************************************)
EXTENDS Naturals, Sequences, FiniteSets, TLC

(* ---------------------------------------------------------------------- *)
(* Bounds and input sets                                                   *)
(* ---------------------------------------------------------------------- *)
MaxRuns == 2            \* constructions of a client in one behaviour

None == "None"          \* Python's None for username / password

HostPlain == <<"https://site.org">>
HostOdd == <<"https://", "login.php", ".org">>
Hosts == {HostPlain, HostOdd}

Usernames == {None, "alice", "mallory"}
Passwords == {None, "secret"}
Account == [username |-> "alice", password |-> "secret"]

Statuses == {200, 500}
\* what the service can answer: a status and whether the body is JSON
Replies == {[status |-> 200, json |-> TRUE], [status |-> 200, json |-> FALSE],
            [status |-> 500, json |-> FALSE]}
Actions == {"index", "usersearch"}
Values == {"login.php", "a b"}
Pages == {1, 2}
KwargKeys == {"search", "page"}
SpecialKeys == {"action", "page"}
KeyOrder == <<"action", "search", "page">>
CookieOrder == <<"session">>

NoFile == <<>>          \* os.path.exists(config_file) is False
NoReply == [made |-> FALSE]

VARIABLES host, username, password, jar, file, configDir, serverValid,
          issued, pc, err, log, fileAtStart, runs, probe, loginResp,
          lastCall, persisted

vars == <<host, username, password, jar, file, configDir, serverValid,
          issued, pc, err, log, fileAtStart, runs, probe, loginResp,
          lastCall, persisted>>

(* ---------------------------------------------------------------------- *)
(* Text                                                                    *)
(* ---------------------------------------------------------------------- *)
LoginPage == <<"login.php">>

\* `pat in s`: pat occurs in s as a contiguous run
Contains(s, pat) ==
    \E i \in 0..Len(s) :
        /\ i + Len(pat) <= Len(s)
        /\ \A j \in 1..Len(pat) : s[i + j] = pat[j]

\* str(page)
Str(n) == IF n = 1 THEN "1" ELSE IF n = 2 THEN "2" ELSE "0"

\* form/query encoding of one value as the transport does it
Quote(v) == IF v = "a b" THEN "a+b" ELSE v

\* f"{self.host}/login.php"
LoginUrl(h) == h \o <<"/", "login.php">>

\* f"{self.host}/ajax.php"
AjaxUrl(h) == h \o <<"/", "ajax.php">>

RECURSIVE QueryFrom(_, _, _)
QueryFrom(params, i, first) ==
    IF i > Len(KeyOrder) THEN <<>>
    ELSE LET k == KeyOrder[i] IN
         IF k \in DOMAIN params
         THEN (IF first THEN <<"?">> ELSE <<"&">>)
              \o <<k, "=", Quote(params[k])>>
              \o QueryFrom(params, i + 1, FALSE)
         ELSE QueryFrom(params, i + 1, first)

\* the URL the GET is prepared with: endpoint plus encoded query parameters
PreparedUrl(h, params) == AjaxUrl(h) \o QueryFrom(params, 1, TRUE)

(* ---------------------------------------------------------------------- *)
(* Cookie store and its persisted form                                     *)
(* ---------------------------------------------------------------------- *)
EmptyJar == [n \in {} |-> 0]

\* cookies.update(other): entries of other replace same-named entries
Update(j, other) ==
    [n \in DOMAIN j \cup DOMAIN other |->
        IF n \in DOMAIN other THEN other[n] ELSE j[n]]

RECURSIVE DumpFrom(_, _)
DumpFrom(j, i) ==
    IF i > Len(CookieOrder) THEN <<>>
    ELSE IF CookieOrder[i] \in DOMAIN j
         THEN << <<CookieOrder[i], j[CookieOrder[i]]>> >> \o DumpFrom(j, i + 1)
         ELSE DumpFrom(j, i + 1)

DumpDiscarding(j) == <<>>

\* pickle.dump(self._session.cookies, f): the serialised name/value entries
Dump(j) == DumpFrom(j, 1)

\* pickle.load(f): the cookie store the entries describe
Load(bytes) ==
    [n \in {bytes[i][1] : i \in 1..Len(bytes)} |->
        (CHOOSE e \in {bytes[i] : i \in 1..Len(bytes)} : e[1] = n)[2]]

(* ---------------------------------------------------------------------- *)
(* Remote service                                                          *)
(* ---------------------------------------------------------------------- *)
SessionValid(j) == "session" \in DOMAIN j /\ j["session"] \in serverValid

CredentialsAccepted(u, p) == u = Account.username /\ p = Account.password

(* ---------------------------------------------------------------------- *)
(* Request dispatcher: GazelleClient.get                                   *)
(* ---------------------------------------------------------------------- *)
MergeParamsKwargsWin(action, kwargs, special) ==
    Update(Update([k \in {"action"} |-> action], special), kwargs)

\* params = {"action": action, **kwargs}; params.update(special)
MergeParams(action, kwargs, special) ==
    Update(Update([k \in {"action"} |-> action], kwargs), special)

IsErrorStatus(status) == status >= 400

GetOutcomeStatusFirst(url, status, json) ==
    IF IsErrorStatus(status) THEN "HTTPError"
    ELSE IF Contains(url, LoginPage) THEN "SessionInvalid"
    ELSE IF ~json THEN "JSONDecodeError"
    ELSE "data"

\* what get() does with the response: the login-page check, then
\* raise_for_status(), then response.json()
GetOutcome(url, status, json) ==
    IF Contains(url, LoginPage) THEN "SessionInvalid"
    ELSE IF IsErrorStatus(status) THEN "HTTPError"
    ELSE IF ~json THEN "JSONDecodeError"
    ELSE "data"

\* the exceptions that are instances of ValueError
IsValueError(outcome) == outcome \in {"SessionInvalid", "JSONDecodeError"}

\* one call of get(): the service redirects to the login page when the
\* cookies carry no valid session, otherwise it serves the action endpoint
Dispatch(action, kwargs, special, reply) ==
    LET sent == MergeParams(action, kwargs, special)
        redirected == ~SessionValid(jar)
        url == IF redirected THEN LoginUrl(host) ELSE PreparedUrl(host, sent)
    IN  [made |-> TRUE, action |-> action, kwargs |-> kwargs,
         special |-> special, sent |-> sent, redirected |-> redirected,
         url |-> url, status |-> reply.status, json |-> reply.json,
         outcome |-> GetOutcome(url, reply.status, reply.json)]

Count(s, e) == Cardinality({i \in 1..Len(s) : s[i] = e})

ParamMaps(keys) == UNION {[d -> Values] : d \in SUBSET keys}

(* ---------------------------------------------------------------------- *)
(* State machine                                                           *)
(* ---------------------------------------------------------------------- *)
Init ==
    /\ host \in Hosts
    /\ username = None
    /\ password = None
    /\ jar = EmptyJar
    /\ file = NoFile
    /\ configDir = FALSE
    /\ serverValid = {}
    /\ issued = 0
    /\ pc = "idle"
    /\ err = "none"
    /\ log = <<>>
    /\ fileAtStart = NoFile
    /\ runs = 0
    /\ probe = NoReply
    /\ loginResp = NoReply
    /\ lastCall = NoReply
    /\ persisted = 0

\* GazelleClient(host, username, password): the fields, a fresh session,
\* and the start of _login (the config directory is created if absent)
Construct(u, p) ==
    /\ pc \in {"idle", "returned", "raised"}
    /\ runs < MaxRuns
    /\ runs' = runs + 1
    /\ username' = u
    /\ password' = p
    /\ jar' = EmptyJar
    /\ configDir' = TRUE
    /\ pc' = "check_file"
    /\ err' = "none"
    /\ log' = <<>>
    /\ fileAtStart' = file
    /\ probe' = NoReply
    /\ loginResp' = NoReply
    /\ lastCall' = NoReply
    /\ UNCHANGED <<host, file, serverValid, issued, persisted>>

\* the cookie file exists: its cookies are loaded into the session
LoadCookies ==
    /\ pc = "check_file"
    /\ file # NoFile
    /\ jar' = Update(jar, Load(file[1]))
    /\ pc' = "probe"
    /\ UNCHANGED <<host, username, password, file, configDir, serverValid,
                   issued, err, log, fileAtStart, runs, probe, loginResp,
                   lastCall, persisted>>

\* the cookie file does not exist: straight to the credentials test
NoCookieFile ==
    /\ pc = "check_file"
    /\ file = NoFile
    /\ pc' = "creds"
    /\ UNCHANGED <<host, username, password, jar, file, configDir,
                   serverValid, issued, err, log, fileAtStart, runs, probe,
                   loginResp, lastCall, persisted>>

AfterProbeAlwaysReturn(outcome) == "returned"

AfterProbeNoReturn(outcome) ==
    IF outcome = "data" \/ IsValueError(outcome) THEN "creds" ELSE "raised"

\* try: self.index(); return / except ValueError: pass
AfterProbe(outcome) ==
    IF outcome = "data" THEN "returned"
    ELSE IF IsValueError(outcome) THEN "creds"
    ELSE "raised"

\* the validity probe: self.index() on the loaded cookies
Probe(reply) ==
    /\ pc = "probe"
    /\ LET r == Dispatch("index", EmptyJar, EmptyJar, reply)
       IN  /\ probe' = r @@ [persistedLive |-> persisted \in serverValid]
           /\ pc' = AfterProbe(r.outcome)
           /\ err' = IF AfterProbe(r.outcome) = "raised" THEN r.outcome
                     ELSE err
    /\ log' = Append(log, "GET")
    /\ UNCHANGED <<host, username, password, jar, file, configDir,
                   serverValid, issued, fileAtStart, runs, loginResp,
                   lastCall, persisted>>

CredentialsPresentEither(u, p) == u # None \/ p # None

\* username is not None and password is not None
CredentialsPresent(u, p) == u # None /\ p # None

\* else: raise ValueError("Neither session or username and password ...")
MissingCredentials ==
    /\ pc = "creds"
    /\ ~CredentialsPresent(username, password)
    /\ pc' = "raised"
    /\ err' = "CredentialsMissing"
    /\ UNCHANGED <<host, username, password, jar, file, configDir,
                   serverValid, issued, log, fileAtStart, runs, probe,
                   loginResp, lastCall, persisted>>

LoginFailedNever(url) == FALSE

\* "login.php" in response.url
LoginFailed(url) == Contains(url, LoginPage)

\* the login POST; the service answers accepted credentials with a new
\* session cookie and a redirect to its index page, rejected ones with the
\* login page again
LoginPost(status) ==
    /\ pc = "creds"
    /\ CredentialsPresent(username, password)
    /\ LET accepted == CredentialsAccepted(username, password)
           token == issued + 1
           url == IF accepted THEN host \o <<"/", "index.php">>
                  ELSE LoginUrl(host)
       IN  /\ loginResp' = [made |-> TRUE, accepted |-> accepted,
                            url |-> url, status |-> status,
                            token |-> IF accepted THEN token ELSE 0]
           /\ issued' = IF accepted THEN token ELSE issued
           /\ serverValid' = IF accepted THEN serverValid \cup {token}
                             ELSE serverValid
           /\ jar' = IF accepted
                     THEN Update(jar, [n \in {"session"} |-> token])
                     ELSE jar
           /\ pc' = IF LoginFailed(url) THEN "raised" ELSE "save"
           /\ err' = IF LoginFailed(url) THEN "InvalidCredentials" ELSE err
    /\ log' = Append(log, "POST")
    /\ UNCHANGED <<host, username, password, file, configDir, fileAtStart,
                   runs, probe, lastCall, persisted>>

\* with open(config_file, "wb") as f: pickle.dump(self._session.cookies, f)
SaveCookies ==
    /\ pc = "save"
    /\ file' = <<Dump(jar)>>
    /\ persisted' = loginResp.token
    /\ log' = Append(log, "WRITE")
    /\ pc' = "returned"
    /\ UNCHANGED <<host, username, password, jar, configDir, serverValid,
                   issued, err, fileAtStart, runs, probe, loginResp,
                   lastCall>>

\* client.get(action, **kwargs, special=special) on a constructed client
Get(action, kwargs, special, reply) ==
    /\ pc = "returned"
    /\ lastCall' = Dispatch(action, kwargs, special, reply)
    /\ pc' = "called"
    /\ UNCHANGED <<host, username, password, jar, file, configDir,
                   serverValid, issued, err, log, fileAtStart, runs,
                   probe, loginResp, persisted>>

\* client.user_search(search, page, special=special)
UserSearch(search, page, special, reply) ==
    /\ pc = "returned"
    /\ lastCall' = Dispatch("usersearch",
                            [k \in {"search", "page"} |->
                                IF k = "search" THEN search ELSE Str(page)],
                            special, reply)
    /\ pc' = "called"
    /\ UNCHANGED <<host, username, password, jar, file, configDir,
                   serverValid, issued, err, log, fileAtStart, runs,
                   probe, loginResp, persisted>>

\* get() hands its result (the data or the exception) to the caller; the
\* client keeps nothing of the call
CallReturns ==
    /\ pc = "called"
    /\ pc' = "returned"
    /\ lastCall' = NoReply
    /\ UNCHANGED <<host, username, password, jar, file, configDir,
                   serverValid, issued, err, log, fileAtStart, runs,
                   probe, loginResp, persisted>>

\* the remote service drops a session (expiry, logout elsewhere)
Expire(t) ==
    /\ t \in serverValid
    /\ serverValid' = serverValid \ {t}
    /\ UNCHANGED <<host, username, password, jar, file, configDir, issued,
                   pc, err, log, fileAtStart, runs, probe, loginResp,
                   lastCall, persisted>>

Next ==
    \/ \E u \in Usernames, p \in Passwords : Construct(u, p)
    \/ LoadCookies
    \/ NoCookieFile
    \/ \E reply \in Replies : Probe(reply)
    \/ MissingCredentials
    \/ \E status \in Statuses : LoginPost(status)
    \/ SaveCookies
    \/ \E action \in Actions, kwargs \in ParamMaps(KwargKeys),
          special \in ParamMaps(SpecialKeys), reply \in Replies :
            Get(action, kwargs, special, reply)
    \/ \E search \in Values, page \in Pages,
          special \in ParamMaps(SpecialKeys), reply \in Replies :
            UserSearch(search, page, special, reply)
    \/ CallReturns
    \/ \E t \in 1..MaxRuns : Expire(t)

Spec == Init /\ [][Next]_vars


(* ---------------------------------------------------------------------- *)
(* Claims                                                                  *)
(* ---------------------------------------------------------------------- *)
\* construction handed a client to the caller
Constructed == pc \in {"returned", "called"}

\* construction is over, with a client or with an error
Finished == pc \in {"returned", "called", "raised"}

\* C1: when the cookie file exists and the validity probe succeeds on the
\* loaded cookies, construction succeeds and no login POST is issued during
\* it, with or without credentials supplied.
C1_NoLoginWhenProbeSucceeds ==
    (probe.made /\ probe.outcome = "data") =>
        /\ Constructed
        /\ Count(log, "POST") = 0
        /\ ~loginResp.made
        /\ log = <<"GET">>

C1_Witness ==
    /\ pc = "returned"
    /\ fileAtStart # NoFile
    /\ probe.made /\ probe.outcome = "data"
    /\ username # None /\ password # None

\* C2: with no cookie file and credentials the remote service accepts,
\* construction makes exactly one login POST, writes the cookie file after
\* it and never before, and the file exists when construction returns.
C2_FreshLoginPersists ==
    /\ (Count(log, "WRITE") > 0 =>
            \E i, j \in 1..Len(log) :
                i < j /\ log[i] = "POST" /\ log[j] = "WRITE")
    /\ (Finished /\ fileAtStart = NoFile /\ loginResp.made
        /\ loginResp.accepted) =>
            /\ Constructed
            /\ log = <<"POST", "WRITE">>
            /\ file # NoFile

\* C3: with no cookie file and the username or the password absent,
\* construction fails with CredentialsMissing, writes no cookie file and
\* issues no network request.
C3_MissingCredentialsFailFast ==
    (pc # "idle" /\ fileAtStart = NoFile
     /\ (username = None \/ password = None)) =>
        /\ pc \in {"check_file", "creds", "raised"}
        /\ (pc = "raised" => err = "CredentialsMissing")
        /\ log = <<>>
        /\ ~probe.made
        /\ ~loginResp.made
        /\ file = NoFile

C3_Witness ==
    /\ pc = "raised"
    /\ err = "CredentialsMissing"
    /\ fileAtStart = NoFile
    /\ username # None
    /\ password = None
    /\ log = <<>>

\* C4: a dispatcher call whose final response URL contains login.php fails
\* with SessionInvalid whatever the HTTP status: never HTTPError, never data.
C4_LoginPageBeforeStatus ==
    /\ (lastCall.made /\ Contains(lastCall.url, LoginPage)) =>
            lastCall.outcome = "SessionInvalid"
    /\ (probe.made /\ Contains(probe.url, LoginPage)) =>
            /\ probe.outcome = "SessionInvalid"
            /\ err # "HTTPError"
            /\ pc # "returned" \/ loginResp.made

C4_Witness ==
    /\ pc = "called"
    /\ lastCall.made
    /\ lastCall.redirected
    /\ Contains(lastCall.url, LoginPage)
    /\ IsErrorStatus(lastCall.status)
    /\ lastCall.outcome = "SessionInvalid"

\* C5: the query parameters sent by get(action, params, special) are
\* {action} merged with params and overlaid by special: a key of special
\* carries the special value (also when it is an ordinary param or
\* "action"), every other key keeps its ordinary value; and the values of
\* special are the ones that appear in the query string.
C5_SpecialTakesPrecedence ==
    lastCall.made =>
        /\ DOMAIN lastCall.sent =
               {"action"} \cup DOMAIN lastCall.kwargs \cup DOMAIN lastCall.special
        /\ \A k \in DOMAIN lastCall.sent :
               lastCall.sent[k] =
                   IF k \in DOMAIN lastCall.special THEN lastCall.special[k]
                   ELSE IF k = "action" THEN lastCall.action
                   ELSE lastCall.kwargs[k]
        /\ ~lastCall.redirected =>
               \A k \in DOMAIN lastCall.special :
                   Contains(lastCall.url,
                            <<k, "=", Quote(lastCall.special[k])>>)

C5_Witness ==
    /\ lastCall.made
    /\ ~lastCall.redirected
    /\ "page" \in DOMAIN lastCall.kwargs
    /\ "page" \in DOMAIN lastCall.special
    /\ lastCall.kwargs["page"] # lastCall.special["page"]
    /\ "action" \in DOMAIN lastCall.special
    /\ lastCall.sent["action"] # lastCall.action
    /\ lastCall.sent["page"] = lastCall.special["page"]

\* C6 as stated: a client that construction returns holds cookies that were
\* confirmed valid against the index endpoint; otherwise construction fails
\* with an error.
C6_ConfirmedAgainstIndex ==
    /\ Constructed => (probe.made /\ probe.outcome = "data")
    /\ pc = "raised" => err # "none"

\* C6 amended: a client that construction returns either passed the
\* validity probe on its loaded cookies, or made one login POST whose final
\* response URL does not contain login.php and persisted the resulting
\* cookie store (those cookies are not probed); otherwise construction
\* fails with an error.
C6_ProbedOrLoggedIn ==
    /\ Constructed =>
          \/ /\ probe.made /\ probe.outcome = "data"
             /\ ~loginResp.made
          \/ /\ loginResp.made
             /\ ~Contains(loginResp.url, LoginPage)
             /\ Count(log, "POST") = 1
             /\ file = <<Dump(jar)>>
             /\ probe.made => IsValueError(probe.outcome)
    /\ pc = "raised" =>
          err \in {"CredentialsMissing", "InvalidCredentials", "HTTPError"}

C6_Witness ==
    /\ pc = "returned"
    /\ probe.made
    /\ probe.outcome = "SessionInvalid"
    /\ loginResp.made
    /\ file = <<Dump(jar)>>

\* C7: the cookie store persisted by a login is the one a later
\* construction reloads, and while the remote service still holds that
\* session valid and answers the probe normally, the later construction
\* completes on the probe without a login POST, credentials or not.
C7_PersistReloadRoundTrip ==
    /\ (pc = "probe" /\ persisted # 0) =>
            ("session" \in DOMAIN jar /\ jar["session"] = persisted)
    /\ (probe.made /\ probe.persistedLive /\ probe.status = 200
        /\ probe.json) =>
            /\ probe.outcome = "data"
            /\ Constructed
            /\ ~loginResp.made
            /\ Count(log, "POST") = 0

C7_Witness ==
    /\ pc = "returned"
    /\ probe.made
    /\ probe.persistedLive
    /\ probe.outcome = "data"
    /\ username = None
    /\ password = None
    /\ jar["session"] = persisted

\* C8: when the final response URL of the login POST still points at the
\* login page, construction fails with InvalidCredentials after exactly one
\* login POST and the cookie file is left as it was (absent or unchanged).
C8_RejectedLoginLeavesFile ==
    (loginResp.made /\ Contains(loginResp.url, LoginPage)) =>
        /\ pc = "raised"
        /\ err = "InvalidCredentials"
        /\ Count(log, "POST") = 1
        /\ Count(log, "WRITE") = 0
        /\ file = fileAtStart

C8_Witness ==
    /\ pc = "raised"
    /\ err = "InvalidCredentials"
    /\ host = HostPlain
    /\ loginResp.made
    /\ loginResp.url = LoginUrl(host)
    /\ fileAtStart # NoFile
    /\ file = fileAtStart

\* C9: the only probe failure construction handles itself is SessionInvalid;
\* an error status or an undecodable body on the probe surfaces to the
\* caller as that error and is never followed by a login POST or a cookie
\* file write.
C9_OtherProbeFailuresSurface ==
    (probe.made /\ probe.outcome \in {"HTTPError", "JSONDecodeError"}) =>
        /\ Count(log, "POST") = 0
        /\ Count(log, "WRITE") = 0
        /\ Finished => (pc = "raised" /\ err = probe.outcome)

\* C10: a dispatcher call that the action endpoint served without a
\* redirect to the login page never fails with SessionInvalid, whatever the
\* host and the values of the query parameters.
C10_SessionInvalidOnlyOnRedirect ==
    /\ (lastCall.made /\ ~lastCall.redirected) =>
            lastCall.outcome # "SessionInvalid"
    /\ (probe.made /\ ~probe.redirected) =>
            probe.outcome # "SessionInvalid"

====
